---- MODULE Spec2Model ----
(***************************************************************************)
(* Clipboard Manager V2 (clipboard_manager_ui_v2.py): the three tables of  *)
(* the embedded store, the QSettings value last_session_id, the fields of  *)
(* ClipboardManagerV2 and of its ClipboardThread, the system clipboard,    *)
(* and the two threads of control (the interactive thread and the polling  *)
(* loop).                                                                  *)
(*                                                                         *)
(* Row ids are positions: AUTOINCREMENT ids start at 1 and rows are never  *)
(* removed, so the id of a row is its index in the table's sequence.       *)
(* 0 stands for Python's None (and for "no QSettings value").              *)
(* Strings are small naturals: a session name is 1..MaxName, a clipboard   *)
(* text is 1..MaxContent and 0 is the empty string.                       *)
(***************************************************************************)
EXTENDS Naturals, Sequences, FiniteSets

\* ---------------------------------------------------------------- bounds
MaxUsers    == 2   \* usernames that may register
MaxName     == 2   \* distinct session names typed into the dialogs
MaxSessions == 2   \* rows of the sessions table
MaxEntries  == 2   \* rows of the clipboard_entries table
MaxContent  == 2   \* distinct non-empty clipboard texts
MaxImage    == 1   \* distinct clipboard images
MaxItems    == 2   \* items the user puts on the system clipboard
MaxPending  == 2   \* clipboard_changed signals queued for the main thread
MaxClock    == 3   \* readings of datetime.now()
MaxPassword == 2   \* distinct passwords typed into the dialogs

Usernames == 1..MaxUsers
Passwords == 1..MaxPassword
Names     == 1..MaxName
Texts     == 1..MaxContent
Images    == 1..MaxImage

VARIABLES
  users,               \* table users: <<[username, password_hash]>>
  sessions,            \* table sessions: <<[user_id, name, is_deleted, is_default]>>
  clipboard_entries,   \* table clipboard_entries
  last_session_id,     \* QSettings 'last_session_id'
  current_user_id,     \* ClipboardManagerV2.current_user_id
  current_session_id,  \* ClipboardManagerV2.current_session_id
  clipboard_history,   \* ClipboardManagerV2.clipboard_history (fetched tuples)
  session_list,        \* items of the QListWidget session_list
  session_current,     \* session_list.currentItem(), as a position (0: none)
  history_current,     \* history_display.currentItem(), as a row (0: none)
  clipboard,           \* the system clipboard
  running,             \* ClipboardThread.running
  previous_content,    \* ClipboardThread.previous_content
  pollerPc,            \* position of ClipboardThread.run
  loops,               \* number of run() loops executing
  pending,             \* emitted clipboard_changed signals not yet handled
  guiPc,               \* position of the interactive thread
  clock,               \* datetime.now()
  dbAccess,            \* how db_connection has been used so far: with db_lock
                       \* held ("locked") or not ("unlocked")
  db_lock,             \* ClipboardManagerV2.db_lock: "unlocked", "locked", or
                       \* "blocked" (locked, with the interactive thread
                       \* waiting in acquire() for a release)
  surfaced,            \* how the latest sqlite3.Error reached the user
  login_dialog         \* username and password fields of the LoginDialog
                       \* that showLogin accepted last

vars == <<users, sessions, clipboard_entries, last_session_id, current_user_id,
          current_session_id, clipboard_history, session_list, session_current,
          history_current, clipboard, running, previous_content, pollerPc,
          loops, pending, guiPc, clock, dbAccess, db_lock, surfaced,
          login_dialog>>

dbVars  == <<users, sessions, clipboard_entries>>
uiVars  == <<current_session_id, clipboard_history, session_list,
             session_current, history_current>>
monVars == <<running, previous_content, pollerPc, loops, pending>>

\* ------------------------------------------------------------ pure parts
None == 0

\* hash_password: SHA-256 of the password alone; equal passwords give equal
\* digests and (no collisions in the model) different ones different digests.
\* A digest is written as the pair <<"sha256", password>>.
hash_password(password) == <<"sha256", password>>

\* QByteArray.toBase64 of the PNG of an image, and base64.b64decode followed
\* by QImage.loadFromData: the stored text of image i is MaxContent + i,
\* which is none of the texts 1..MaxContent.
ImageToBase64(image) == MaxContent + image
Base64ToImage(content) == content - MaxContent

NoContent == [kind |-> "none", val |-> 0]
TextOf(t)  == [kind |-> "text", val |-> t]
ImageOf(i) == [kind |-> "image", val |-> i]

\* A Python datetime is the instant it denotes (a reading of the clock, all
\* of them in UTC); a timestamp column holds the text the adapter wrote,
\* here the pair of the instant and the text of its %z field.
Null == <<0, "NULL">>

\* adapt_datetime as it would be with a format that has no %z.
adapt_datetime_NoZone(dt) ==
  IF dt = None THEN Null ELSE <<dt, "">>

\* adapt_datetime: astimezone(utc).strftime("%Y-%m-%d %H:%M:%S.%f%z").
adapt_datetime(dt) ==
  IF dt = None THEN Null ELSE <<dt, "+0000">>

\* convert_datetime: strptime with the same format; a text it cannot parse
\* (ValueError) gives None.
convert_datetime(val) ==
  IF val = Null THEN None
  ELSE IF val[2] = "+0000" THEN val[1] ELSE None

\* ORDER BY timestamp compares the stored texts; texts of this fixed-width
\* format sort as their instants.
TimestampOrder(val) == val[1]

\* the tuple a SELECT content, content_type, width, height, timestamp returns;
\* id is kept beside it to name the row the tuple was read from.
EntryTuple(ents, i) ==
  [id |-> i, content |-> ents[i].content, content_type |-> ents[i].content_type,
   timestamp |-> convert_datetime(ents[i].timestamp)]

\* SELECT id, name, is_default FROM sessions WHERE is_deleted = 0 ORDER BY name
ListedSessionIds(sess) == {i \in 1..Len(sess) : ~sess[i].is_deleted}

RECURSIVE OrderByName(_, _)
OrderByName(sess, S) ==
  IF S = {} THEN <<>>
  ELSE LET m == CHOOSE x \in S : \A y \in S :
                   \/ sess[x].name < sess[y].name
                   \/ sess[x].name = sess[y].name /\ x <= y
       IN  <<[id |-> m, name |-> sess[m].name]>> \o OrderByName(sess, S \ {m})

\* HistoryIds as it would be had the SELECT no `is_deleted = 0`.
HistoryIds_All(ents, sid) ==
  {i \in 1..Len(ents) : ents[i].session_id = sid}

\* SELECT ... FROM clipboard_entries WHERE session_id = ? AND is_deleted = 0
\* ORDER BY timestamp DESC
HistoryIds(ents, sid) ==
  {i \in 1..Len(ents) : ents[i].session_id = sid /\ ~ents[i].is_deleted}

RECURSIVE OrderByTimestampDesc(_, _)
OrderByTimestampDesc(ents, S) ==
  IF S = {} THEN <<>>
  ELSE LET m == CHOOSE x \in S : \A y \in S :
                   \/ TimestampOrder(ents[x].timestamp) >
                        TimestampOrder(ents[y].timestamp)
                   \/ ents[x].timestamp = ents[y].timestamp /\ x <= y
       IN  <<EntryTuple(ents, m)>> \o OrderByTimestampDesc(ents, S \ {m})

SelectHistory(ents, sid) == OrderByTimestampDesc(ents, HistoryIds(ents, sid))

\* Positions of a sequence that satisfy a test, smallest first.
FirstIndex(S) == IF S = {} THEN 0 ELSE CHOOSE i \in S : \A j \in S : i <= j

\* loadAvailableSessions: the list it builds and the item it makes current.
LoadedList(sess) == OrderByName(sess, ListedSessionIds(sess))

\* LoadedCurrent as it would be with the search for the default session
\* placed before the search for the last used one.
LoadedCurrent_DefaultFirst(sess, last) ==
  LET lst == LoadedList(sess)
      byLast    == {i \in 1..Len(lst) : lst[i].id = last}
      byDefault == {i \in 1..Len(lst) : sess[lst[i].id].is_default}
  IN  IF lst = <<>> THEN 0
      ELSE IF byDefault # {} THEN FirstIndex(byDefault)
      ELSE IF last # None /\ byLast # {} THEN FirstIndex(byLast)
      ELSE 1

LoadedCurrent(sess, last) ==
  LET lst == LoadedList(sess)
      byLast    == {i \in 1..Len(lst) : lst[i].id = last}
      byDefault == {i \in 1..Len(lst) : sess[lst[i].id].is_default}
  IN  IF lst = <<>> THEN 0
      ELSE IF last # None /\ byLast # {} THEN FirstIndex(byLast)
      ELSE IF byDefault # {} THEN FirstIndex(byDefault)
      ELSE 1

\* What loadAvailableSessions does with db_connection: the SELECT of the list
\* under db_lock, and the per-item SELECT is_default after the with block.
LoadSessionsAccess(sess, last) ==
  LET lst == LoadedList(sess)
  IN  IF lst = <<>> \/ (last # None /\ \E i \in 1..Len(lst) : lst[i].id = last)
      THEN {"locked"}
      ELSE {"locked", "unlocked"}

\* loadClipboardHistory: nothing when no session is current, otherwise the
\* fetched rows replace clipboard_history and the display is rebuilt.
\* (LoadHistory_Stale: as it would be without the assignment of the rows.)
LoadHistory_Stale(ents, sid, hist) == hist
LoadHistory(ents, sid, hist) == IF sid = None THEN hist ELSE SelectHistory(ents, sid)
LoadHistoryRow(sid, row)     == IF sid = None THEN row ELSE 0

\* UniqueUserName as it would be had the table no UNIQUE(user_id, name).
UniqueUserName_Off(sess) == TRUE

\* UniqueUserName as it would be were the constraint a partial index over
\* the rows with is_deleted = 0.
UniqueUserName_LiveOnly(sess) ==
  \A i, j \in 1..Len(sess) :
     (/\ sess[i].user_id = sess[j].user_id /\ sess[i].name = sess[j].name
      /\ ~sess[i].is_deleted /\ ~sess[j].is_deleted) => i = j

\* UNIQUE(user_id, name) of the sessions table.
UniqueUserName(sess) ==
  \A i, j \in 1..Len(sess) :
     (sess[i].user_id = sess[j].user_id /\ sess[i].name = sess[j].name) => i = j

\* QThread.start(): starts run() unless the thread is already running.
QThreadStart(n) == IF n = 0 THEN 1 ELSE n

\* QThread.wait() returns once run() has returned.
WaitReturns == loops = 0

\* ------------------------------------------------------------------ Init
Init ==
  /\ users = <<>>
  /\ sessions = <<>>
  /\ clipboard_entries = <<>>
  /\ last_session_id = None
  /\ current_user_id = None
  /\ current_session_id = None
  /\ clipboard_history = <<>>
  /\ session_list = <<>>
  /\ session_current = 0
  /\ history_current = 0
  /\ clipboard = [kind |-> "none", val |-> 0, item |-> 0, sel |-> 0]
  /\ running = FALSE
  /\ previous_content = NoContent
  /\ pollerPc = "none"
  /\ loops = 0
  /\ pending = 0
  /\ guiPc = "login"
  /\ clock = 0
  /\ dbAccess = {}
  /\ db_lock = "unlocked"
  /\ surfaced = "none"
  /\ login_dialog = [username |-> 0, password |-> 0]

\* db_lock is a threading.Lock, which is not reentrant: acquire() on a held
\* lock waits until another thread releases it. Only the interactive thread
\* uses db_lock, so an acquire() it makes while it holds the lock never
\* returns. RunLocking takes the acquisitions and releases a handler makes,
\* in order, from the state the lock is in.
RECURSIVE RunLocking(_, _)
RunLocking(events, lock) ==
  IF events = <<>> \/ lock = "blocked" THEN lock
  ELSE RunLocking(Tail(events),
                  IF Head(events) = "acquire"
                  THEN (IF lock = "locked" THEN "blocked" ELSE "locked")
                  ELSE "unlocked")

\* loadClipboardHistory as it would be with its SELECT inside
\* `with self.db_lock`.
loadClipboardHistoryLocking_WithLock == <<"acquire", "release">>

\* loadClipboardHistory and updateHistoryDisplay take no lock.
loadClipboardHistoryLocking == <<>>

\* saveClipboardContent: `with self.db_lock` around the INSERT, the commit
\* and the call of loadClipboardHistory.
saveClipboardContentLocking ==
  <<"acquire">> \o loadClipboardHistoryLocking \o <<"release">>

\* saveClipboardContent when the INSERT raises: the with block is left
\* through its __exit__, which releases, before the except clause runs.
saveClipboardContentFailsLocking == <<"acquire", "release">>

\* loadAvailableSessions: `with self.db_lock` around the SELECT of the list
\* only; the rest of the method runs after the release.
loadAvailableSessionsLocking == <<"acquire", "release">>

\* loadAvailableSessions when the SELECT raises inside the with block.
loadAvailableSessionsFailsLocking == <<"acquire", "release">>

\* --------------------------------------------------- login and lifecycle
\* loadAvailableSessions, as every caller uses it: the list and its current
\* item are rebuilt from the table; current_session_id is not touched.
loadAvailableSessions(sess) ==
  /\ session_list' = LoadedList(sess)
  /\ session_current' = LoadedCurrent(sess, last_session_id)

\* startClipboardMonitor: a new ClipboardThread (running, previous_content
\* None), connected and started.
startClipboardMonitor ==
  /\ running' = TRUE
  /\ previous_content' = NoContent
  /\ loops' = loops + 1
  /\ pollerPc' = "check"

\* InsertUser as it would be with INSERT OR REPLACE: the row of a taken
\* username is overwritten.
InsertUser_Replace(usrs, username, password_hash) ==
  IF \E i \in 1..Len(usrs) : usrs[i].username = username
  THEN [i \in 1..Len(usrs) |->
          IF usrs[i].username = username
          THEN [usrs[i] EXCEPT !.password_hash = password_hash] ELSE usrs[i]]
  ELSE Append(usrs, [username |-> username, password_hash |-> password_hash])

\* INSERT INTO users (username, password_hash): the table afterwards. With a
\* taken username the statement raises IntegrityError (username UNIQUE) and
\* the table is as before.
InsertUser(usrs, username, password_hash) ==
  IF \E i \in 1..Len(usrs) : usrs[i].username = username
  THEN usrs
  ELSE Append(usrs, [username |-> username, password_hash |-> password_hash])

\* showLogin, register branch: registerUser.
registerUser(username, password) ==
  /\ guiPc = "login"
  /\ db_lock # "blocked"
  /\ users' = InsertUser(users, username, hash_password(password))
  /\ UNCHANGED db_lock
  /\ dbAccess' = dbAccess \cup {"unlocked"}
  /\ UNCHANGED <<sessions, clipboard_entries, last_session_id, current_user_id,
                 uiVars, clipboard, monVars, guiPc, clock>>
  /\ UNCHANGED <<surfaced, login_dialog>>

\* validateUser as it would be if the SELECT compared the username only.
validateUser_AnyPassword(usrs, username, password_hash) ==
  {i \in 1..Len(usrs) : usrs[i].username = username}

\* validateUser: SELECT id FROM users WHERE username = ? AND password_hash = ?
\* (the rows it matches; fetchone() takes the first).
validateUser(usrs, username, password_hash) ==
  {i \in 1..Len(usrs) : /\ usrs[i].username = username
                        /\ usrs[i].password_hash = password_hash}

\* showLogin, accepted branch: validateUser, and on success the rest of
\* __init__ (setupUI, loadAvailableSessions, startClipboardMonitor).
showLogin(username, password) ==
  /\ guiPc = "login"
  /\ db_lock # "blocked"
  /\ LET hit == validateUser(users, username, hash_password(password))
     IN  IF hit # {}
         THEN /\ current_user_id' = FirstIndex(hit)
              /\ login_dialog' = [username |-> username, password |-> password]
              /\ loadAvailableSessions(sessions)
              /\ startClipboardMonitor
              /\ guiPc' = "idle"
              /\ db_lock' = RunLocking(loadAvailableSessionsLocking, db_lock)
              /\ dbAccess' = dbAccess \cup {"unlocked"} \cup
                             LoadSessionsAccess(sessions, last_session_id)
              /\ UNCHANGED pending
         ELSE /\ UNCHANGED db_lock
              /\ dbAccess' = dbAccess \cup {"unlocked"}
              /\ UNCHANGED <<current_user_id, session_list, session_current,
                             monVars, guiPc, login_dialog>>
  /\ UNCHANGED <<dbVars, last_session_id, current_session_id, clipboard_history,
                 history_current, clipboard, clock>>
  /\ UNCHANGED surfaced

\* showLogin, dialog dismissed: __init__ calls sys.exit().
loginDismissed ==
  /\ guiPc = "login"
  /\ db_lock # "blocked"
  /\ guiPc' = "exited"
  /\ UNCHANGED <<dbAccess, db_lock, dbVars, last_session_id, current_user_id, uiVars, clipboard,
                 monVars, clock>>
  /\ UNCHANGED <<surfaced, login_dialog>>

\* The application is launched again: __init__ up to the login dialog. The
\* database file and QSettings are those the previous run left.
launch ==
  /\ guiPc = "exited"
  /\ guiPc' = "login"
  /\ db_lock' = "unlocked"
  /\ UNCHANGED <<dbAccess, dbVars, last_session_id, current_user_id, uiVars, clipboard,
                 monVars, clock>>
  /\ UNCHANGED <<surfaced, login_dialog>>

\* closeEvent -> cleanup: stop() and then wait() for the thread.
cleanup ==
  /\ guiPc = "idle"
  /\ db_lock # "blocked"
  /\ running' = FALSE
  /\ guiPc' = "cleanup_wait"
  /\ UNCHANGED <<dbAccess, db_lock, dbVars, last_session_id, current_user_id, uiVars, clipboard,
                 previous_content, pollerPc, loops, pending, clock>>
  /\ UNCHANGED <<surfaced, login_dialog>>

\* cleanup after wait() returned: the connection is closed and the process
\* ends; its objects and the queued signals are gone.
cleanupDone ==
  /\ guiPc = "cleanup_wait"
  /\ db_lock # "blocked"
  /\ WaitReturns
  /\ guiPc' = "exited"
  /\ current_user_id' = None
  /\ current_session_id' = None
  /\ clipboard_history' = <<>>
  /\ session_list' = <<>>
  /\ session_current' = 0
  /\ history_current' = 0
  /\ previous_content' = NoContent
  /\ pending' = 0
  /\ UNCHANGED <<dbAccess, db_lock, dbVars, last_session_id, clipboard, running, pollerPc, loops,
                 clock>>
  /\ UNCHANGED <<surfaced, login_dialog>>

\* -------------------------------------------------------------- sessions
\* itemClicked on item i of session_list (the click makes it current):
\* onSessionSelected, then loadSession and loadClipboardHistory.
onSessionSelected(i) ==
  /\ guiPc = "idle"
  /\ db_lock # "blocked"
  /\ i \in 1..Len(session_list)
  /\ session_current' = i
  /\ current_session_id' = session_list[i].id
  /\ last_session_id' = session_list[i].id
  /\ clipboard_history' = SelectHistory(clipboard_entries, session_list[i].id)
  /\ history_current' = 0
  /\ UNCHANGED db_lock
  /\ dbAccess' = dbAccess \cup {"unlocked"}
  /\ UNCHANGED <<dbVars, current_user_id, session_list, clipboard, monVars,
                 guiPc, clock>>
  /\ UNCHANGED <<surfaced, login_dialog>>

\* INSERT INTO sessions (user_id, name): the row the table would hold.
InsertSession(sess, uid, name) ==
  Append(sess, [user_id |-> uid, name |-> name,
                is_deleted |-> FALSE, is_default |-> FALSE])

\* createNewSession; new_name = 0 is a cancelled dialog or an empty name.
createNewSession(new_name) ==
  /\ guiPc = "idle"
  /\ db_lock # "blocked"
  /\ LET ins == InsertSession(sessions, current_user_id, new_name)
     IN  IF new_name # 0 /\ UniqueUserName(ins)
         THEN /\ Len(sessions) < MaxSessions
              /\ sessions' = ins
              /\ loadAvailableSessions(ins)
              /\ db_lock' = RunLocking(loadAvailableSessionsLocking, db_lock)
              /\ dbAccess' = dbAccess \cup {"unlocked"} \cup
                             LoadSessionsAccess(ins, last_session_id)
         ELSE /\ UNCHANGED db_lock
              /\ dbAccess' = IF new_name = 0 THEN dbAccess ELSE dbAccess \cup {"unlocked"}
              /\ UNCHANGED <<sessions, session_list, session_current>>
  /\ UNCHANGED <<users, clipboard_entries, last_session_id, current_user_id,
                 current_session_id, clipboard_history, history_current,
                 clipboard, monVars, guiPc, clock>>
  /\ UNCHANGED <<surfaced, login_dialog>>

\* UPDATE sessions SET name = ? WHERE name = ? AND user_id = ?
RenameRows(sess, new_name, old_name, uid) ==
  [i \in 1..Len(sess) |->
     IF sess[i].name = old_name /\ sess[i].user_id = uid
     THEN [sess[i] EXCEPT !.name = new_name] ELSE sess[i]]

\* renameSession; new_name = 0 is a cancelled dialog or an empty name.
renameSession(new_name) ==
  /\ guiPc = "idle"
  /\ db_lock # "blocked"
  /\ IF session_current = 0 \/ new_name = 0
     THEN /\ UNCHANGED <<dbAccess, db_lock>>
          /\ UNCHANGED <<sessions, session_list, session_current>>
     ELSE LET old_name == session_list[session_current].name
              upd == RenameRows(sessions, new_name, old_name, current_user_id)
          IN  IF UniqueUserName(upd)
              THEN /\ sessions' = upd
                   /\ loadAvailableSessions(upd)
                   /\ db_lock' = RunLocking(loadAvailableSessionsLocking, db_lock)
                   /\ dbAccess' = dbAccess \cup {"unlocked"} \cup
                                  LoadSessionsAccess(upd, last_session_id)
              ELSE /\ UNCHANGED db_lock
                   /\ dbAccess' = dbAccess \cup {"unlocked"}
                   /\ UNCHANGED <<sessions, session_list, session_current>>
  /\ UNCHANGED <<users, clipboard_entries, last_session_id, current_user_id,
                 current_session_id, clipboard_history, history_current,
                 clipboard, monVars, guiPc, clock>>
  /\ UNCHANGED <<surfaced, login_dialog>>

\* UPDATE sessions SET is_deleted = 1 WHERE name = ? AND user_id = ?
SoftDeleteSessions(sess, name, uid) ==
  [i \in 1..Len(sess) |->
     IF sess[i].name = name /\ sess[i].user_id = uid
     THEN [sess[i] EXCEPT !.is_deleted = TRUE] ELSE sess[i]]

\* UPDATE clipboard_entries SET is_deleted = 1 WHERE session_id IN
\* (SELECT id FROM sessions WHERE name = ? AND user_id = ?)
\* (SoftDeleteEntriesOf_Skipped: deleteSession without this UPDATE.)
SoftDeleteEntriesOf_Skipped(ents, sess, name, uid) == ents

SoftDeleteEntriesOf(ents, sess, name, uid) ==
  [i \in 1..Len(ents) |->
     IF \E s \in 1..Len(sess) : /\ sess[s].name = name /\ sess[s].user_id = uid
                                /\ ents[i].session_id = s
     THEN [ents[i] EXCEPT !.is_deleted = TRUE] ELSE ents[i]]

deleteSession ==
  /\ guiPc = "idle"
  /\ db_lock # "blocked"
  /\ IF session_current = 0
     THEN /\ UNCHANGED <<dbAccess, db_lock>>
          /\ UNCHANGED <<sessions, clipboard_entries, uiVars>>
     ELSE LET name == session_list[session_current].name
              del  == SoftDeleteSessions(sessions, name, current_user_id)
          IN  /\ sessions' = del
              /\ clipboard_entries' =
                   SoftDeleteEntriesOf(clipboard_entries, sessions, name,
                                       current_user_id)
              /\ loadAvailableSessions(del)
              /\ current_session_id' = None
              /\ clipboard_history' = <<>>
              /\ history_current' = 0
              /\ db_lock' = RunLocking(loadAvailableSessionsLocking, db_lock)
              /\ dbAccess' = dbAccess \cup {"unlocked"} \cup
                             LoadSessionsAccess(del, last_session_id)
  /\ UNCHANGED <<users, last_session_id, current_user_id, clipboard, monVars,
                 guiPc, clock>>
  /\ UNCHANGED <<surfaced, login_dialog>>

\* SetDefaultRows as it would be without the first UPDATE (the one that
\* clears the user's existing default).
SetDefaultRows_NoClear(sess, sid, uid) ==
  [i \in 1..Len(sess) |->
     IF sess[i].user_id = uid /\ i = sid
     THEN [sess[i] EXCEPT !.is_default = TRUE] ELSE sess[i]]

\* The two UPDATEs of setDefaultSession.
SetDefaultRows(sess, sid, uid) ==
  [i \in 1..Len(sess) |->
     IF sess[i].user_id = uid
     THEN [sess[i] EXCEPT !.is_default = (i = sid)] ELSE sess[i]]

setDefaultSession ==
  /\ guiPc = "idle"
  /\ db_lock # "blocked"
  /\ IF current_session_id = None
     THEN /\ UNCHANGED <<dbAccess, db_lock>>
          /\ UNCHANGED <<sessions, session_list, session_current>>
     ELSE LET upd == SetDefaultRows(sessions, current_session_id, current_user_id)
          IN  /\ sessions' = upd
              /\ loadAvailableSessions(upd)
              /\ db_lock' = RunLocking(loadAvailableSessionsLocking, db_lock)
              /\ dbAccess' = dbAccess \cup {"unlocked"} \cup
                             LoadSessionsAccess(upd, last_session_id)
  /\ UNCHANGED <<users, clipboard_entries, last_session_id, current_user_id,
                 current_session_id, clipboard_history, history_current,
                 clipboard, monVars, guiPc, clock>>
  /\ UNCHANGED <<surfaced, login_dialog>>

\* --------------------------------------------------------------- entries
\* The user makes row r of history_display the current item.
selectHistoryItem(r) ==
  /\ guiPc = "idle"
  /\ db_lock # "blocked"
  /\ r \in 1..Len(clipboard_history)
  /\ r # history_current
  /\ history_current' = r
  /\ UNCHANGED <<dbAccess, db_lock, dbVars, last_session_id, current_user_id, current_session_id,
                 clipboard_history, session_list, session_current, clipboard,
                 monVars, guiPc, clock>>
  /\ UNCHANGED <<surfaced, login_dialog>>

\* INSERT INTO clipboard_entries (session_id, content, content_type, width,
\* height, timestamp); item names the clipboard item the content was read from.
InsertEntry(ents, sid, content, content_type, now, item) ==
  Append(ents, [session_id |-> sid, content |-> content,
                content_type |-> content_type,
                timestamp |-> adapt_datetime(now),
                is_deleted |-> FALSE, item |-> item])

\* saveClipboardContent as it would be without its first test.
saveClipboardContent_NoGuard(content, content_type, item) ==
  LET now == clock + 1
      ins == InsertEntry(clipboard_entries, current_session_id, content,
                         content_type, now, item)
  IN  /\ Len(clipboard_entries) < MaxEntries
      /\ clock < MaxClock
      /\ clock' = now
      /\ clipboard_entries' = ins
      /\ clipboard_history' = LoadHistory(ins, current_session_id,
                                          clipboard_history)
      /\ history_current' = LoadHistoryRow(current_session_id, history_current)
      /\ db_lock' = RunLocking(saveClipboardContentLocking, db_lock)
      /\ dbAccess' = dbAccess \cup {"locked"}

\* saveClipboardContent, called by onClipboardChanged with what it read.
saveClipboardContent(content, content_type, item) ==
  IF current_session_id = None
  THEN /\ UNCHANGED <<dbAccess, db_lock>>
       /\ UNCHANGED <<clipboard_entries, clipboard_history, history_current, clock>>
  ELSE LET now == clock + 1
           ins == InsertEntry(clipboard_entries, current_session_id, content,
                              content_type, now, item)
       IN  /\ Len(clipboard_entries) < MaxEntries
           /\ clock < MaxClock
           /\ clock' = now
           /\ clipboard_entries' = ins
           /\ clipboard_history' = LoadHistory(ins, current_session_id,
                                               clipboard_history)
           /\ history_current' = LoadHistoryRow(current_session_id, history_current)
           /\ db_lock' = RunLocking(saveClipboardContentLocking, db_lock)
           /\ dbAccess' = dbAccess \cup {"locked"}

\* onClipboardChanged: the slot of a queued clipboard_changed signal, run by
\* the interactive thread; it reads the clipboard as it is now.
onClipboardChanged ==
  /\ guiPc = "idle"
  /\ db_lock # "blocked"
  /\ pending > 0
  /\ pending' = pending - 1
  /\ IF clipboard.kind = "image"
     THEN saveClipboardContent(ImageToBase64(clipboard.val), "image", clipboard.item)
     ELSE IF clipboard.kind = "text" /\ clipboard.val # 0
     THEN saveClipboardContent(clipboard.val, "text", clipboard.item)
     ELSE /\ UNCHANGED <<dbAccess, db_lock>>
          /\ UNCHANGED <<clipboard_entries, clipboard_history, history_current,
                         clock>>
  /\ UNCHANGED <<users, sessions, last_session_id, current_user_id,
                 current_session_id, session_list, session_current, clipboard,
                 running, previous_content, pollerPc, loops, guiPc>>
  /\ UNCHANGED <<surfaced, login_dialog>>

\* The UPDATE of deleteClipboardEntry: rows of the session with this content
\* whose timestamp is that of the newest non-deleted such row.
SoftDeleteEntry(ents, content, sid) ==
  LET live == {i \in 1..Len(ents) : /\ ents[i].content = content
                                    /\ ents[i].session_id = sid
                                    /\ ~ents[i].is_deleted}
  IN  IF live = {} THEN ents
      ELSE LET newest == CHOOSE i \in live :
                            \A j \in live :
                               TimestampOrder(ents[i].timestamp) >=
                               TimestampOrder(ents[j].timestamp)
           IN  [i \in 1..Len(ents) |->
                  IF /\ ents[i].content = content
                     /\ ents[i].session_id = sid
                     /\ ents[i].timestamp = ents[newest].timestamp
                  THEN [ents[i] EXCEPT !.is_deleted = TRUE] ELSE ents[i]]

deleteClipboardEntry ==
  /\ guiPc = "idle"
  /\ db_lock # "blocked"
  /\ IF history_current = 0
     THEN /\ UNCHANGED <<dbAccess, db_lock>>
          /\ UNCHANGED <<clipboard_entries, clipboard_history, history_current>>
     ELSE LET upd == SoftDeleteEntry(clipboard_entries,
                                     clipboard_history[history_current].content,
                                     current_session_id)
          IN  /\ clipboard_entries' = upd
              /\ clipboard_history' = LoadHistory(upd, current_session_id,
                                                  clipboard_history)
              /\ history_current' = LoadHistoryRow(current_session_id,
                                                   history_current)
              /\ UNCHANGED db_lock
              /\ dbAccess' = dbAccess \cup {"unlocked"}
  /\ UNCHANGED <<users, sessions, last_session_id, current_user_id,
                 current_session_id, session_list, session_current, clipboard,
                 monVars, guiPc, clock>>
  /\ UNCHANGED <<surfaced, login_dialog>>

\* SoftDeleteAll as it would be without `session_id = ?` in its WHERE.
SoftDeleteAll_AnySession(ents, sid) ==
  [i \in 1..Len(ents) |-> [ents[i] EXCEPT !.is_deleted = TRUE]]

\* SoftDeleteAll as it would be with DELETE FROM clipboard_entries WHERE
\* session_id = ? in place of the UPDATE.
SoftDeleteAll_Hard(ents, sid) ==
  SelectSeq(ents, LAMBDA e : e.session_id # sid)

\* UPDATE clipboard_entries SET is_deleted = 1 WHERE session_id = ? AND is_deleted = 0
SoftDeleteAll(ents, sid) ==
  [i \in 1..Len(ents) |->
     IF ents[i].session_id = sid /\ ~ents[i].is_deleted
     THEN [ents[i] EXCEPT !.is_deleted = TRUE] ELSE ents[i]]

clearClipboardHistory ==
  /\ guiPc = "idle"
  /\ db_lock # "blocked"
  /\ IF current_session_id = None
     THEN /\ UNCHANGED <<dbAccess, db_lock>>
          /\ UNCHANGED <<clipboard_entries, clipboard_history, history_current>>
     ELSE LET upd == SoftDeleteAll(clipboard_entries, current_session_id)
          IN  /\ clipboard_entries' = upd
              /\ clipboard_history' = SelectHistory(upd, current_session_id)
              /\ history_current' = 0
              /\ UNCHANGED db_lock
              /\ dbAccess' = dbAccess \cup {"unlocked"}
  /\ UNCHANGED <<users, sessions, last_session_id, current_user_id,
                 current_session_id, session_list, session_current, clipboard,
                 monVars, guiPc, clock>>
  /\ UNCHANGED <<surfaced, login_dialog>>

\* UPDATE clipboard_entries SET content = ?, timestamp = ?
\* WHERE content = ? AND session_id = ? AND timestamp = ?
\* with the datetimes now and timestamp adapted; timestamp = NULL holds of
\* no row.
ModifyRows(ents, new_content, now, content, sid, timestamp) ==
  [i \in 1..Len(ents) |->
     IF /\ ents[i].content = content
        /\ ents[i].session_id = sid
        /\ timestamp # None
        /\ ents[i].timestamp = adapt_datetime(timestamp)
     THEN [ents[i] EXCEPT !.content = new_content,
                          !.timestamp = adapt_datetime(now)]
     ELSE ents[i]]

\* modifyClipboardEntry; ok = FALSE is a cancelled dialog.
modifyClipboardEntry(ok, new_content) ==
  /\ guiPc = "idle"
  /\ db_lock # "blocked"
  /\ IF history_current = 0
     THEN /\ UNCHANGED <<dbAccess, db_lock>>
          /\ UNCHANGED <<clipboard_entries, clipboard_history, history_current, clock>>
     ELSE LET sel == clipboard_history[history_current]
          IN  IF sel.content_type # "text" \/ ~ok \/ new_content = sel.content
              THEN /\ UNCHANGED <<dbAccess, db_lock>>
                   /\ UNCHANGED <<clipboard_entries, clipboard_history,
                                  history_current, clock>>
              ELSE LET now == clock + 1
                       upd == ModifyRows(clipboard_entries, new_content, now,
                                         sel.content, current_session_id,
                                         sel.timestamp)
                   IN  /\ clock < MaxClock
                       /\ clock' = now
                       /\ clipboard_entries' = upd
                       /\ clipboard_history' = LoadHistory(upd, current_session_id,
                                                           clipboard_history)
                       /\ history_current' = LoadHistoryRow(current_session_id,
                                                            history_current)
                       /\ UNCHANGED db_lock
                       /\ dbAccess' = dbAccess \cup {"unlocked"}
  /\ UNCHANGED <<users, sessions, last_session_id, current_user_id,
                 current_session_id, session_list, session_current, clipboard,
                 monVars, guiPc>>
  /\ UNCHANGED <<surfaced, login_dialog>>

\* ------------------------------------------------- clipboard and monitor
\* What clipboard.mimeData() offers: an image, or else a text.
ClipboardContent == [kind |-> clipboard.kind, val |-> clipboard.val]

\* Changed as it would be without the comparison to previous_content.
Changed_NoCompare(content, previous) ==
  \/ content.kind = "image"
  \/ content.kind = "text" /\ content.val # 0

\* The test of one iteration: is there something to signal?
Changed(content, previous) ==
  \/ content.kind = "image" /\ content # previous
  \/ content.kind = "text" /\ content.val # 0 /\ content # previous

\* Signals queued or still to be emitted for what is on the clipboard. The
\* clipboard is given new content only while this leaves room in the queue,
\* so that the loop never finds the queue full.
Outstanding ==
  pending + (IF Changed(ClipboardContent, previous_content) THEN 1 ELSE 0)

\* The user copies something new in another application. item numbers the
\* copies; sel is the session that is current at that moment.
ClipboardValues ==
  {TextOf(t) : t \in 0..MaxContent} \cup {ImageOf(i) : i \in Images}

userCopies(c) ==
  /\ c \in ClipboardValues
  /\ c # ClipboardContent
  /\ clipboard.item < MaxItems
  /\ IF guiPc = "copy_wait" THEN pending + 1 < MaxPending ELSE pending < MaxPending
  /\ clipboard' = [kind |-> c.kind, val |-> c.val, item |-> clipboard.item + 1,
                   sel |-> IF guiPc \in {"idle", "copy_wait"}
                           THEN current_session_id ELSE None]
  /\ UNCHANGED <<dbAccess, db_lock, dbVars, last_session_id, current_user_id, uiVars, monVars,
                 guiPc, clock>>
  /\ UNCHANGED <<surfaced, login_dialog>>

\* runCheck as it would be with `while True`.
runCheck_Forever ==
  /\ pollerPc = "check"
  /\ pollerPc' = "body"
  /\ UNCHANGED <<dbAccess, db_lock, dbVars, last_session_id, current_user_id, uiVars,
                 clipboard, running, previous_content, loops, pending, guiPc,
                 clock>>
  /\ UNCHANGED <<surfaced, login_dialog>>

\* ClipboardThread.run, the test of `while self.running`.
runCheck ==
  /\ pollerPc = "check"
  /\ IF running
     THEN /\ pollerPc' = "body"
          /\ UNCHANGED loops
     ELSE /\ pollerPc' = "none"
          /\ loops' = loops - 1
  /\ UNCHANGED <<dbAccess, db_lock, dbVars, last_session_id, current_user_id, uiVars, clipboard,
                 running, previous_content, pending, guiPc, clock>>
  /\ UNCHANGED <<surfaced, login_dialog>>

\* ClipboardThread.run, the body of one iteration and its sleep.
runBody ==
  /\ pollerPc = "body"
  /\ IF Changed(ClipboardContent, previous_content)
     THEN /\ pending < MaxPending
          /\ pending' = pending + 1
          /\ previous_content' = ClipboardContent
     ELSE UNCHANGED <<pending, previous_content>>
  /\ pollerPc' = "check"
  /\ UNCHANGED <<dbAccess, db_lock, dbVars, last_session_id, current_user_id, uiVars, clipboard,
                 running, loops, guiPc, clock>>
  /\ UNCHANGED <<surfaced, login_dialog>>

\* An iteration whose clipboard access raised: control is in the except
\* branch, nothing was emitted or remembered.
runRaised ==
  /\ pollerPc = "body"
  /\ pollerPc' = "except"
  /\ UNCHANGED <<dbAccess, db_lock, dbVars, last_session_id, current_user_id, uiVars, clipboard,
                 running, previous_content, loops, pending, guiPc, clock>>
  /\ UNCHANGED <<surfaced, login_dialog>>

\* The except branch: the error is logged and, after the sleep, the loop
\* goes on with its test.
runExcept ==
  /\ pollerPc = "except"
  /\ pollerPc' = "check"
  /\ UNCHANGED <<dbAccess, db_lock, dbVars, last_session_id, current_user_id, uiVars, clipboard,
                 running, previous_content, loops, pending, guiPc, clock>>
  /\ UNCHANGED <<surfaced, login_dialog>>

\* copySelectedToClipboard up to clipboard_thread.wait(); with no current
\* history item it returns at once.
copySelectedToClipboard ==
  /\ guiPc = "idle"
  /\ db_lock # "blocked"
  /\ IF history_current = 0
     THEN UNCHANGED <<running, guiPc>>
     ELSE /\ Outstanding < MaxPending
          /\ running' = FALSE
          /\ guiPc' = "copy_wait"
  /\ UNCHANGED <<dbAccess, db_lock, dbVars, last_session_id, current_user_id, uiVars, clipboard,
                 previous_content, pollerPc, loops, pending, clock>>
  /\ UNCHANGED <<surfaced, login_dialog>>

\* What clipboard.setText / clipboard.setImage put on the clipboard.
Restored(entry) ==
  IF entry.content_type = "text" THEN TextOf(entry.content)
  ELSE ImageOf(Base64ToImage(entry.content))

\* copyRestart as it would be if, without waiting for the old thread, the
\* monitor were restarted with a new ClipboardThread (startClipboardMonitor).
copyRestart_Respawn ==
  /\ guiPc = "copy_wait"
  /\ db_lock # "blocked"
  /\ LET c == Restored(clipboard_history[history_current])
     IN  clipboard' = [kind |-> c.kind, val |-> c.val, item |-> 0, sel |-> None]
  /\ running' = TRUE
  /\ loops' = loops + 1
  /\ pollerPc' = "check"
  /\ guiPc' = "idle"
  /\ UNCHANGED <<dbAccess, db_lock, dbVars, last_session_id, current_user_id, uiVars,
                 previous_content, pending, clock>>
  /\ UNCHANGED <<surfaced, login_dialog>>

\* copySelectedToClipboard after wait() returned: the content is put on the
\* clipboard and the same thread object is started again.
copyRestart ==
  /\ guiPc = "copy_wait"
  /\ db_lock # "blocked"
  /\ WaitReturns
  /\ LET c == Restored(clipboard_history[history_current])
     IN  clipboard' = [kind |-> c.kind, val |-> c.val, item |-> 0, sel |-> None]
  /\ running' = TRUE
  /\ loops' = QThreadStart(loops)
  /\ pollerPc' = IF loops = 0 THEN "check" ELSE pollerPc
  /\ guiPc' = "idle"
  /\ UNCHANGED <<dbAccess, db_lock, dbVars, last_session_id, current_user_id, uiVars,
                 previous_content, pending, clock>>
  /\ UNCHANGED <<surfaced, login_dialog>>

\* copyRaised as it would be were the restart the last statement of the try
\* block instead of a finally clause.
copyRaised_NoFinally ==
  /\ guiPc = "copy_wait"
  /\ db_lock # "blocked"
  /\ WaitReturns
  /\ guiPc' = "idle"
  /\ UNCHANGED <<dbAccess, db_lock, dbVars, last_session_id, current_user_id, uiVars,
                 clipboard, monVars, clock>>
  /\ UNCHANGED <<surfaced, login_dialog>>

\* copySelectedToClipboard after wait() returned, when writing the clipboard
\* raises (or the content is of no supported type and the try block
\* returns): the clipboard keeps its content, the error is logged, and the
\* finally clause starts the thread again.
copyRaised ==
  /\ guiPc = "copy_wait"
  /\ db_lock # "blocked"
  /\ WaitReturns
  /\ running' = TRUE
  /\ loops' = QThreadStart(loops)
  /\ pollerPc' = IF loops = 0 THEN "check" ELSE pollerPc
  /\ guiPc' = "idle"
  /\ UNCHANGED <<dbAccess, db_lock, dbVars, last_session_id, current_user_id, uiVars,
                 clipboard, previous_content, pending, clock>>
  /\ UNCHANGED <<surfaced, login_dialog>>

\* -------------------------------------------------------- storage errors
\* The handlers when their first statement on db_connection raises
\* sqlite3.Error (OperationalError: the database file is locked or cannot
\* be written). Nothing is written to the tables.

\* An exception that leaves a slot. No sys.excepthook is installed: PyQt
\* prints the traceback and returns to the event loop, or (PyQt 5.5 and
\* later) calls qFatal(), which aborts the process with its thread.
RaisesUncaught ==
  /\ surfaced' = "uncaught"
  /\ UNCHANGED login_dialog
  /\ UNCHANGED db_lock
  /\ dbAccess' = dbAccess \cup {"unlocked"}
  /\ \/ UNCHANGED <<current_user_id, uiVars, monVars, guiPc>>
     \/ /\ guiPc' = "exited"
        /\ current_user_id' = None
        /\ current_session_id' = None
        /\ clipboard_history' = <<>>
        /\ session_list' = <<>>
        /\ session_current' = 0
        /\ history_current' = 0
        /\ running' = FALSE
        /\ previous_content' = NoContent
        /\ pollerPc' = "none"
        /\ loops' = 0
        /\ pending' = 0
  /\ UNCHANGED <<dbVars, last_session_id, clipboard, clock>>

\* createNewSession: only sqlite3.IntegrityError is caught.
createNewSessionFails(new_name) ==
  /\ guiPc = "idle"
  /\ db_lock # "blocked"
  /\ new_name # 0
  /\ RaisesUncaught

\* renameSession: only sqlite3.IntegrityError is caught.
renameSessionFails(new_name) ==
  /\ guiPc = "idle"
  /\ db_lock # "blocked"
  /\ session_current # 0
  /\ new_name # 0
  /\ RaisesUncaught

\* deleteSession has no try.
deleteSessionFails ==
  /\ guiPc = "idle"
  /\ db_lock # "blocked"
  /\ session_current # 0
  /\ RaisesUncaught

\* deleteClipboardEntry has no try.
deleteClipboardEntryFails ==
  /\ guiPc = "idle"
  /\ db_lock # "blocked"
  /\ history_current # 0
  /\ RaisesUncaught

\* clearClipboardHistory has no try.
clearClipboardHistoryFails ==
  /\ guiPc = "idle"
  /\ db_lock # "blocked"
  /\ current_session_id # None
  /\ RaisesUncaught

\* modifyClipboardEntry has no try.
modifyClipboardEntryFails(new_content) ==
  /\ guiPc = "idle"
  /\ db_lock # "blocked"
  /\ history_current # 0
  /\ clipboard_history[history_current].content_type = "text"
  /\ new_content # clipboard_history[history_current].content
  /\ RaisesUncaught

\* setDefaultSession: except sqlite3.Error logs and shows QMessageBox.warning.
setDefaultSessionFails ==
  /\ guiPc = "idle"
  /\ db_lock # "blocked"
  /\ current_session_id # None
  /\ surfaced' = "dialog"
  /\ UNCHANGED login_dialog
  /\ UNCHANGED db_lock
  /\ dbAccess' = dbAccess \cup {"unlocked"}
  /\ UNCHANGED <<dbVars, last_session_id, current_user_id, uiVars, clipboard,
                 monVars, guiPc, clock>>

\* __init__ after a successful login when the SELECT of loadAvailableSessions
\* raises: except Exception shows QMessageBox.critical, the list stays as it
\* was, and __init__ goes on to startClipboardMonitor.
loadAvailableSessionsFails(username, password) ==
  /\ guiPc = "login"
  /\ db_lock # "blocked"
  /\ LET hit == validateUser(users, username, hash_password(password))
     IN  /\ hit # {}
         /\ current_user_id' = FirstIndex(hit)
  /\ login_dialog' = [username |-> username, password |-> password]
  /\ startClipboardMonitor
  /\ guiPc' = "idle"
  /\ surfaced' = "dialog"
  /\ db_lock' = RunLocking(loadAvailableSessionsFailsLocking, db_lock)
  /\ dbAccess' = dbAccess \cup {"locked", "unlocked"}
  /\ UNCHANGED <<dbVars, last_session_id, uiVars, clipboard, pending, clock>>

\* onSessionSelected when the SELECT of loadClipboardHistory raises: except
\* sqlite3.Error logs and writes to the status bar; clipboard_history and
\* the display keep the rows of the session shown before.
loadClipboardHistoryFails(i) ==
  /\ guiPc = "idle"
  /\ db_lock # "blocked"
  /\ i \in 1..Len(session_list)
  /\ session_current' = i
  /\ current_session_id' = session_list[i].id
  /\ last_session_id' = session_list[i].id
  /\ surfaced' = "status_bar"
  /\ UNCHANGED login_dialog
  /\ UNCHANGED db_lock
  /\ dbAccess' = dbAccess \cup {"unlocked"}
  /\ UNCHANGED <<dbVars, current_user_id, clipboard_history, session_list,
                 history_current, clipboard, monVars, guiPc, clock>>

\* onClipboardChanged when the INSERT of saveClipboardContent raises: except
\* sqlite3.Error only logs; the copied content is not stored.
saveClipboardContentFails ==
  /\ guiPc = "idle"
  /\ db_lock # "blocked"
  /\ pending > 0
  /\ current_session_id # None
  /\ clipboard.kind = "image" \/ (clipboard.kind = "text" /\ clipboard.val # 0)
  /\ pending' = pending - 1
  /\ surfaced' = "log"
  /\ UNCHANGED login_dialog
  /\ db_lock' = RunLocking(saveClipboardContentFailsLocking, db_lock)
  /\ dbAccess' = dbAccess \cup {"locked"}
  /\ UNCHANGED <<dbVars, last_session_id, current_user_id, uiVars, clipboard,
                 running, previous_content, pollerPc, loops, guiPc, clock>>

\* ----------------------------------------------------- the specifications
Accounts ==
  \/ \E u \in Usernames, p \in Passwords : registerUser(u, p)
  \/ \E u \in Usernames, p \in Passwords : showLogin(u, p)
  \/ loginDismissed
  \/ launch

Closing ==
  \/ cleanup
  \/ cleanupDone

SessionOps ==
  \/ \E i \in 1..MaxSessions : onSessionSelected(i)
  \/ \E n \in 0..MaxName : createNewSession(n)
  \/ \E n \in 0..MaxName : renameSession(n)
  \/ deleteSession
  \/ setDefaultSession

EntryOps ==
  \/ \E r \in 1..MaxEntries : selectHistoryItem(r)
  \/ onClipboardChanged
  \/ deleteClipboardEntry
  \/ clearClipboardHistory
  \/ \E ok \in BOOLEAN, t \in Texts : modifyClipboardEntry(ok, t)

Monitor ==
  \/ \E c \in ClipboardValues : userCopies(c)
  \/ runCheck
  \/ runBody
  \/ runRaised
  \/ runExcept

Copying ==
  \/ copySelectedToClipboard
  \/ copyRestart
  \/ copyRaised

StorageErrors ==
  \/ \E n \in Names : createNewSessionFails(n)
  \/ \E n \in Names : renameSessionFails(n)
  \/ deleteSessionFails
  \/ deleteClipboardEntryFails
  \/ clearClipboardHistoryFails
  \/ \E t \in Texts : modifyClipboardEntryFails(t)
  \/ setDefaultSessionFails
  \/ \E u \in Usernames, p \in Passwords : loadAvailableSessionsFails(u, p)
  \/ \E i \in 1..MaxSessions : loadClipboardHistoryFails(i)
  \/ saveClipboardContentFails

\* The whole program, from its first launch on an empty database.
Next ==
  \/ Accounts \/ Closing \/ SessionOps \/ EntryOps \/ Monitor \/ Copying
  \/ StorageErrors

Spec == Init /\ [][Next]_vars

\* One run of one user: the state __init__ leaves after the first user
\* registered and logged in (registerUser(1, 1), showLogin(1, 1) from Init).
InitRun ==
  /\ users = <<[username |-> 1, password_hash |-> hash_password(1)]>>
  /\ sessions = <<>>
  /\ clipboard_entries = <<>>
  /\ last_session_id = None
  /\ current_user_id = 1
  /\ current_session_id = None
  /\ clipboard_history = <<>>
  /\ session_list = <<>>
  /\ session_current = 0
  /\ history_current = 0
  /\ clipboard = [kind |-> "none", val |-> 0, item |-> 0, sel |-> 0]
  /\ running = TRUE
  /\ previous_content = NoContent
  /\ pollerPc = "check"
  /\ loops = 1
  /\ pending = 0
  /\ guiPc = "idle"
  /\ clock = 0
  /\ dbAccess = {"locked", "unlocked"}
  /\ db_lock = "unlocked"
  /\ surfaced = "none"
  /\ login_dialog = [username |-> 1, password |-> 1]


\* The store of one run: sessions and entries, with the monitor feeding it
\* the texts and images the user copies.
NextStore ==
  \/ SessionOps
  \/ EntryOps
  \/ \E c \in ClipboardValues \ {TextOf(0)} : userCopies(c)
  \/ runCheck
  \/ runBody

SpecStore == InitRun /\ [][NextStore]_vars

\* The monitor of one run: the state after createNewSession(1) from InitRun
\* (one session, listed and highlighted, none selected yet), the polling
\* loop, the change handler, the copy back to the clipboard, the close and
\* the next launch and login.
InitMonitor ==
  /\ users = <<[username |-> 1, password_hash |-> hash_password(1)]>>
  /\ sessions = <<[user_id |-> 1, name |-> 1, is_deleted |-> FALSE,
                   is_default |-> FALSE]>>
  /\ clipboard_entries = <<>>
  /\ last_session_id = None
  /\ current_user_id = 1
  /\ current_session_id = None
  /\ clipboard_history = <<>>
  /\ session_list = <<[id |-> 1, name |-> 1]>>
  /\ session_current = 1
  /\ history_current = 0
  /\ clipboard = [kind |-> "none", val |-> 0, item |-> 0, sel |-> 0]
  /\ running = TRUE
  /\ previous_content = NoContent
  /\ pollerPc = "check"
  /\ loops = 1
  /\ pending = 0
  /\ guiPc = "idle"
  /\ clock = 0
  /\ dbAccess = {"locked", "unlocked"}
  /\ db_lock = "unlocked"
  /\ surfaced = "none"
  /\ login_dialog = [username |-> 1, password |-> 1]

NextMonitor ==
  \/ \E i \in 1..MaxSessions : onSessionSelected(i)
  \/ deleteSession
  \/ \E r \in 1..MaxEntries : selectHistoryItem(r)
  \/ onClipboardChanged
  \/ Monitor
  \/ Copying
  \/ Closing
  \/ launch
  \/ \E u \in Usernames, p \in Passwords : showLogin(u, p)

SpecMonitor == InitMonitor /\ [][NextMonitor]_vars

\* Accounts and sessions over several launches and users, from the first
\* launch on an empty database; nothing is copied, so no entry is saved.
NextSessions ==
  \/ Accounts
  \/ Closing
  \/ SessionOps
  \/ runCheck
  \/ runBody

SpecSessions == Init /\ [][NextSessions]_vars

\* One user's work on the store when statements may fail: the operations on
\* sessions and entries from the state after createNewSession(1), each with
\* its failing case, and the next launch after an abort.
NextErrors ==
  \/ \E i \in 1..MaxSessions : onSessionSelected(i)
  \/ \E n \in 0..MaxName : createNewSession(n)
  \/ setDefaultSession
  \/ \E r \in 1..MaxEntries : selectHistoryItem(r)
  \/ onClipboardChanged
  \/ \E t \in Texts : userCopies(TextOf(t))
  \/ runCheck
  \/ runBody
  \/ StorageErrors
  \/ launch
  \/ \E u \in Usernames, p \in Passwords : showLogin(u, p)

SpecErrors == InitMonitor /\ [][NextErrors]_vars

\* The login gate: launches, registrations, logins and dismissals from the
\* first launch on an empty database, with the user copying texts all the
\* while, also while the login dialog is shown.
NextLogin ==
  \/ Accounts
  \/ Closing
  \/ \E i \in 1..MaxSessions : onSessionSelected(i)
  \/ \E n \in Names : createNewSession(n)
  \/ onClipboardChanged
  \/ \E t \in Texts : userCopies(TextOf(t))
  \/ runCheck
  \/ runBody

SpecLogin == Init /\ [][NextLogin]_vars

\* ============================================================== properties
TypeOK ==
  /\ Len(sessions) <= MaxSessions
  /\ Len(clipboard_entries) <= MaxEntries
  /\ pending \in 0..MaxPending
  /\ Outstanding <= MaxPending
  /\ clock \in 0..MaxClock
  /\ current_session_id \in 0..Len(sessions)
  /\ session_current \in 0..Len(session_list)
  /\ history_current \in 0..Len(clipboard_history)
  /\ dbAccess \subseteq {"locked", "unlocked"}
  /\ db_lock \in {"unlocked", "locked", "blocked"}
  /\ surfaced \in {"none", "dialog", "status_bar", "log", "uncaught"}

DeletedSessions == {i \in 1..Len(sessions) : sessions[i].is_deleted}
DeletedEntries  == {i \in 1..Len(clipboard_entries) : clipboard_entries[i].is_deleted}

\* C1: in every reachable state no item of the session list is a session
\* whose is_deleted flag is set, and no tuple of clipboard_history was read
\* from an entry whose is_deleted flag is set.
C1_NoDeletedShown ==
  /\ \A i \in 1..Len(session_list) : ~sessions[session_list[i].id].is_deleted
  /\ \A r \in 1..Len(clipboard_history) :
        ~clipboard_entries[clipboard_history[r].id].is_deleted

\* C1 witness: a session and an entry of a live session have been deleted
\* while the list and the history still show others.
C1_Witness ==
  /\ DeletedSessions # {}
  /\ session_list # <<>>
  /\ clipboard_history # <<>>
  /\ \E e \in DeletedEntries :
        clipboard_entries[e].session_id = current_session_id

\* C2: no step removes a row of sessions or clipboard_entries, and a step
\* that sets an is_deleted flag changes nothing else in either table.
C2_Deletes ==
  \/ \E i \in 1..Len(sessions) : ~sessions[i].is_deleted /\ sessions'[i].is_deleted
  \/ \E i \in 1..Len(clipboard_entries) :
        ~clipboard_entries[i].is_deleted /\ clipboard_entries'[i].is_deleted

C2_SoftDeleteStep ==
  /\ Len(sessions') >= Len(sessions)
  /\ Len(clipboard_entries') >= Len(clipboard_entries)
  /\ C2_Deletes =>
       /\ Len(sessions') = Len(sessions)
       /\ Len(clipboard_entries') = Len(clipboard_entries)
       /\ \A i \in 1..Len(sessions) :
            [sessions'[i] EXCEPT !.is_deleted = FALSE] =
            [sessions[i] EXCEPT !.is_deleted = FALSE]
       /\ \A i \in 1..Len(clipboard_entries) :
            [clipboard_entries'[i] EXCEPT !.is_deleted = FALSE] =
            [clipboard_entries[i] EXCEPT !.is_deleted = FALSE]

C2_SoftDelete == [][C2_SoftDeleteStep]_vars

\* C2 witness: all three deletions have acted: a deleted session with a
\* deleted entry, and every entry of a live session deleted.
C2_Witness ==
  /\ \E e \in DeletedEntries : clipboard_entries[e].session_id \in DeletedSessions
  /\ \E e \in DeletedEntries : clipboard_entries[e].session_id \notin DeletedSessions
  /\ Len(clipboard_entries) = MaxEntries

\* C3: in every reachable state every user owns at most one session row
\* whose is_default flag is set.
C3_AtMostOneDefault ==
  \A u \in 1..Len(users) :
     Cardinality({i \in 1..Len(sessions) :
                    sessions[i].user_id = u /\ sessions[i].is_default}) <= 1

\* C3 witness: a user owns two sessions and the default is the second one
\* while the first is the one last selected.
C3_Witness ==
  \E i, j \in 1..Len(sessions) :
     /\ i < j
     /\ sessions[i].user_id = sessions[j].user_id
     /\ sessions[j].is_default
     /\ last_session_id = i

\* C4: in every reachable state no two session rows of the same user have
\* the same name, deleted rows included.
C4_NamesUnique ==
  \A i, j \in 1..Len(sessions) :
     i # j => ~(/\ sessions[i].user_id = sessions[j].user_id
                /\ sessions[i].name = sessions[j].name)

\* C4 witness: two users each own a session of the same name, one of them
\* deleted.
C4_Witness ==
  \E i, j \in 1..Len(sessions) :
     /\ sessions[i].user_id # sessions[j].user_id
     /\ sessions[i].name = sessions[j].name
     /\ sessions[i].is_deleted

\* The monitor with the scheduling the program relies on: the polling
\* thread keeps running (its sleeps end), and the interactive thread goes on
\* once wait() has returned. An iteration need not raise.
FairSpecMonitor ==
  /\ SpecMonitor
  /\ WF_vars(runCheck)
  /\ WF_vars(runBody)
  /\ WF_vars(runExcept)
  /\ WF_vars(copyRestart)
  /\ WF_vars(cleanupDone)

NonEmpty(c) == c.kind = "image" \/ (c.kind = "text" /\ c.val # 0)

SavedOf(s) == {e \in 1..Len(clipboard_entries) : clipboard_entries[e].item = s}

\* C5: every item the user copies while a session is selected is saved as
\* exactly one entry of that session. No item is ever saved twice; and once
\* the loop has seen the item now on the clipboard and every signal has been
\* handled, with the session still selected, that item has one entry.
C5_Settled ==
  /\ guiPc = "idle"
  /\ pending = 0
  /\ previous_content = ClipboardContent
  /\ NonEmpty(ClipboardContent)
  /\ clipboard.item >= 1
  /\ clipboard.sel # None
  /\ clipboard.sel = current_session_id

C5_ExactlyOnce ==
  /\ \A s \in 1..MaxItems : Cardinality(SavedOf(s)) <= 1
  /\ C5_Settled =>
       Cardinality({e \in SavedOf(clipboard.item) :
                      clipboard_entries[e].session_id = clipboard.sel}) = 1

\* C6: an iteration of the polling loop that did not raise emits exactly
\* one signal if the clipboard content (the image, else the text) is
\* non-empty and differs from previous_content, and then remembers it;
\* otherwise it emits nothing and remembers nothing, so the same unchanged
\* content is signalled once.
C6_Step ==
  (pollerPc = "body" /\ pollerPc' = "check") =>
     LET fresh == NonEmpty(ClipboardContent) /\ ClipboardContent # previous_content
     IN  /\ fresh => (pending' = pending + 1 /\ previous_content' = ClipboardContent)
         /\ ~fresh => (pending' = pending /\ previous_content' = previous_content)

C6_PollIteration == [][C6_Step]_vars

\* C6 witness: an iteration has signalled the content and the next one is
\* about to observe the same content.
C6_Witness ==
  /\ pollerPc = "body"
  /\ pending > 0
  /\ NonEmpty(ClipboardContent)
  /\ previous_content = ClipboardContent

\* C7: the handler of a change signal adds at most one entry, whose
\* session_id is current_session_id; with no session selected it leaves
\* the tables and clipboard_history as they are.
C7_Step ==
  (guiPc = "idle" /\ guiPc' = "idle" /\ pending' = pending - 1) =>
     IF current_session_id = None
     THEN /\ clipboard_entries' = clipboard_entries
          /\ sessions' = sessions
          /\ users' = users
          /\ clipboard_history' = clipboard_history
     ELSE \/ clipboard_entries' = clipboard_entries
          \/ /\ Len(clipboard_entries') = Len(clipboard_entries) + 1
             /\ SubSeq(clipboard_entries', 1, Len(clipboard_entries)) = clipboard_entries
             /\ clipboard_entries'[Len(clipboard_entries')].session_id =
                  current_session_id

C7_SaveTargetsCurrent == [][C7_Step]_vars

\* C7 witness: an entry was saved under the selected session, and now a
\* signal is queued while no session is selected and the clipboard holds
\* something to save.
C7_Witness ==
  /\ clipboard_entries # <<>>
  /\ current_session_id = None
  /\ pending > 0
  /\ guiPc = "idle"
  /\ NonEmpty(ClipboardContent)

\* C8: db_connection is never used without db_lock held.
C8_AllAccessLocked == "unlocked" \notin dbAccess

\* C9: at any time at most one polling loop is executing.
C9_OneLoop == loops <= 1

\* C9 witness: the monitor runs again after copySelectedToClipboard stopped
\* it, waited, put the entry on the clipboard and restarted it.
C9_Witness ==
  /\ loops = 1
  /\ running
  /\ guiPc = "idle"
  /\ clipboard.kind # "none"
  /\ clipboard.item = 0

\* C10: once the run flag is cleared the loop terminates (at its next test
\* of the flag it leaves), the wait() of copySelectedToClipboard and of
\* cleanup returns, and no signal is emitted while no loop is executing;
\* iterations may raise.
C10_StopTerminates ==
  /\ (~running /\ loops > 0) ~> (loops = 0)
  /\ (guiPc = "copy_wait") ~> (guiPc = "idle")
  /\ (guiPc = "cleanup_wait") ~> (guiPc = "exited")
  /\ [][(pollerPc = "check" /\ ~running /\ pollerPc' # "check")
          => (pollerPc' = "none" /\ loops' = loops - 1)]_vars
  /\ [][loops = 0 => pending' <= pending]_vars

\* C10 witness: the flag was cleared, the loop has terminated and wait() is
\* about to return, with a signal emitted before the termination still queued.
C10_Witness ==
  /\ guiPc \in {"copy_wait", "cleanup_wait"}
  /\ ~running
  /\ loops = 0
  /\ pending > 0

\* C11: whenever a statement of an operation on the store fails with
\* sqlite3.Error, the error is shown to the user in a modal dialog and the
\* application keeps running: no error is ever only logged, only written to
\* the status bar, or left uncaught.
C11_ErrorsShownInDialog == surfaced \in {"none", "dialog"}

\* The main window is up: showLogin has returned True and the process has
\* not ended.
LoggedIn == guiPc \in {"idle", "copy_wait", "cleanup_wait"}

\* C12: the session list, the history and the monitor are active only after
\* showLogin returned True; then current_user_id is the id of a users row
\* whose username is the entered one and whose password_hash is the hash of
\* the entered password. Before that, and when the dialog is dismissed, no
\* loop runs, no signal is queued, nothing is listed and no entry is saved.
C12_Gate ==
  /\ LoggedIn =>
       /\ current_user_id \in 1..Len(users)
       /\ users[current_user_id].username = login_dialog.username
       /\ users[current_user_id].password_hash =
            hash_password(login_dialog.password)
  /\ ~LoggedIn =>
       /\ loops = 0
       /\ pending = 0
       /\ session_list = <<>>
       /\ clipboard_history = <<>>

C12_Step ==
  /\ ~LoggedIn => clipboard_entries' = clipboard_entries
  /\ (guiPc = "login" /\ guiPc' = "exited") =>
       /\ loops' = 0
       /\ clipboard_entries' = clipboard_entries
       /\ sessions' = sessions

C12_LoginGates == []C12_Gate /\ [][C12_Step]_vars

\* C12 witness: two users registered with different passwords, the second
\* one logged in with hers and an entry was saved.
C12_Witness ==
  /\ LoggedIn
  /\ current_user_id = 2
  /\ login_dialog.password = 2
  /\ users[1].password_hash # users[2].password_hash
  /\ clipboard_entries # <<>>

\* C13: the stored credential of a user is a salted hash of the password:
\* every password_hash is a digest, never the password itself, and no two
\* users have the same stored value, also when they registered with the
\* same password.
C13_SaltedCredential ==
  /\ \A i \in 1..Len(users) :
        /\ users[i].password_hash \in {hash_password(p) : p \in Passwords}
        /\ users[i].password_hash[1] = "sha256"
  /\ \A i, j \in 1..Len(users) :
        i # j => users[i].password_hash # users[j].password_hash

\* C14: the users table is append-only: a step leaves it unchanged or adds
\* exactly one row, with a username no row had (so a registration with a
\* taken username changes nothing), and no row is ever modified or removed.
C14_Step ==
  \/ users' = users
  \/ /\ Len(users') = Len(users) + 1
     /\ SubSeq(users', 1, Len(users)) = users
     /\ \A i \in 1..Len(users) :
          users[i].username # users'[Len(users')].username

C14_UsersAppendOnly == [][C14_Step]_vars

\* C14 witness: every username is registered and the login dialog is up,
\* so that each further registration is one with a taken username.
C14_Witness ==
  /\ guiPc = "login"
  /\ Len(users) = MaxUsers
  /\ sessions # <<>>

\* The default sessions of a user in a sessions table.
DefaultsOf(sess, uid) ==
  {i \in 1..Len(sess) : sess[i].user_id = uid /\ sess[i].is_default}

\* C15: setDefaultSession (the one operation that writes is_default) acts
\* only while a session is selected, and when it has acted the selected
\* session is the one and only default session of the logged-in user.
C15_Step ==
  (\E i \in 1..Len(sessions) : sessions'[i].is_default # sessions[i].is_default)
    => /\ current_session_id # None
       /\ DefaultsOf(sessions', current_user_id) = {current_session_id}

C15_SelectedIsTheDefault == [][C15_Step]_vars

\* Names the rows of a user carry, soft-deleted rows included, leaving out
\* row i.
NamesOf(sess, uid, i) ==
  {sess[j].name : j \in {k \in 1..Len(sess) : k # i /\ sess[k].user_id = uid}}

\* C16: a session is created or renamed only with a non-empty name that no
\* other row of the logged-in user carries (soft-deleted rows included), so
\* with a used or empty name, or a cancelled dialog, the table stays as it
\* is; a created row belongs to the logged-in user and is neither deleted
\* nor default.
C16_Step ==
  /\ Len(sessions') \in {Len(sessions), Len(sessions) + 1}
  /\ Len(sessions') = Len(sessions) + 1 =>
       LET row == sessions'[Len(sessions')]
       IN  /\ SubSeq(sessions', 1, Len(sessions)) = sessions
           /\ row.user_id = current_user_id
           /\ ~row.is_deleted
           /\ ~row.is_default
           /\ row.name # 0
           /\ row.name \notin NamesOf(sessions, current_user_id, 0)
  /\ \A i \in 1..Len(sessions) :
       sessions'[i].name # sessions[i].name =>
         /\ sessions[i].user_id = current_user_id
         /\ sessions'[i].name # 0
         /\ sessions'[i].name \notin NamesOf(sessions, current_user_id, i)

C16_NamesStayFree == [][C16_Step]_vars

\* C16 witness: the logged-in user has a soft-deleted session and a live,
\* highlighted one under another name, so that creating or renaming with
\* the deleted row's name is a case that arises.
C16_Witness ==
  /\ guiPc = "idle"
  /\ session_current # 0
  /\ \E i, j \in 1..Len(sessions) :
       /\ sessions[i].user_id = current_user_id
       /\ sessions[j].user_id = current_user_id
       /\ sessions[i].is_deleted
       /\ ~sessions[j].is_deleted
       /\ sessions[i].name # sessions[j].name
       /\ session_list[session_current].id = j

\* C17: content that copySelectedToClipboard put on the clipboard is not
\* saved as a new entry. Stated for the signal of the restarted monitor
\* alone: when the loop has compared the restored content, and the signal
\* being handled is the only one queued, the handler adds no entry.
C17_Step ==
  (/\ guiPc = "idle" /\ guiPc' = "idle"
   /\ pending = 1 /\ pending' = 0
   /\ clipboard.item = 0
   /\ clipboard.kind # "none"
   /\ previous_content = ClipboardContent)
    => clipboard_entries' = clipboard_entries

C17_RestoreNotSaved == [][C17_Step]_vars

\* C18: deleteClipboardEntry sets is_deleted of the entry shown at the
\* selected row of the history, and of no other entry, also when the session
\* holds several live entries with that content; with no selection the
\* table stays as it is. Stated for the states in which no copied item has
\* been saved twice, so that equal contents are those the user made equal.
C18_Step ==
  (deleteClipboardEntry /\ \A s \in 1..MaxItems : Cardinality(SavedOf(s)) <= 1) =>
    IF history_current = 0
    THEN clipboard_entries' = clipboard_entries
    ELSE clipboard_entries' =
           [clipboard_entries EXCEPT
              ![clipboard_history[history_current].id].is_deleted = TRUE]

C18_DeletesSelected == [][C18_Step]_vars

\* C19: deleteSession with a session highlighted in the list sets
\* is_deleted of that session and of every entry of that session, changes
\* no other session row and no entry of another session, and leaves
\* current_session_id None and the history empty.
C19_Step ==
  (deleteSession /\ session_current # 0) =>
    LET sid == session_list[session_current].id
    IN  /\ sessions' = [sessions EXCEPT ![sid].is_deleted = TRUE]
        /\ clipboard_entries' =
              [i \in 1..Len(clipboard_entries) |->
                 IF clipboard_entries[i].session_id = sid
                 THEN [clipboard_entries[i] EXCEPT !.is_deleted = TRUE]
                 ELSE clipboard_entries[i]]
        /\ current_session_id' = None
        /\ clipboard_history' = <<>>

C19_DeletesHighlighted == [][C19_Step]_vars

\* C20: modifyClipboardEntry, for a selected text entry, a confirmed dialog
\* and a content other than the old one, updates exactly the entry shown at
\* the selected row: its content becomes the new one and its timestamp the
\* current time, which makes it the first row of the reloaded history; no
\* other entry, deleted or not, changes. With no selection, an image entry,
\* a cancelled dialog or the same content the table stays as it is.
C20_Effect(ok, new_content) ==
  IF /\ history_current # 0
     /\ clipboard_history[history_current].content_type = "text"
     /\ ok
     /\ new_content # clipboard_history[history_current].content
  THEN LET id == clipboard_history[history_current].id
       IN  /\ Len(clipboard_entries') = Len(clipboard_entries)
           /\ clock' > clock
           /\ clipboard_entries'[id].content = new_content
           /\ convert_datetime(clipboard_entries'[id].timestamp) = clock'
           /\ [clipboard_entries'[id] EXCEPT
                 !.content = clipboard_entries[id].content,
                 !.timestamp = clipboard_entries[id].timestamp]
                = clipboard_entries[id]
           /\ \A i \in 1..Len(clipboard_entries) :
                 i # id => clipboard_entries'[i] = clipboard_entries[i]
           /\ clipboard_history' # <<>>
           /\ clipboard_history'[1].id = id
           /\ clipboard_history'[1].content = new_content
  ELSE clipboard_entries' = clipboard_entries

C20_Step ==
  \A ok \in BOOLEAN, t \in Texts :
     modifyClipboardEntry(ok, t) => C20_Effect(ok, t)

C20_ModifiesSelectedText == [][C20_Step]_vars

\* C20 witness: of two entries the one inserted first has been modified and
\* now carries the later timestamp, and the other one is an image or is
\* deleted.
C20_Witness ==
  /\ Len(clipboard_entries) = 2
  /\ clipboard_entries[1].content_type = "text"
  /\ TimestampOrder(clipboard_entries[1].timestamp) >
       TimestampOrder(clipboard_entries[2].timestamp)
  /\ \/ clipboard_entries[2].content_type = "image"
     \/ clipboard_entries[2].is_deleted

\* C21: whenever the interactive thread is between operations the monitor
\* is running: copySelectedToClipboard clears the run flag only with a
\* history row selected, and when it returns (the copy done, or raised, or
\* of no supported type) the flag is set and one loop is executing again.
C21_Step ==
  /\ (running /\ ~running' /\ guiPc' = "copy_wait") => history_current # 0
  /\ (guiPc = "idle" /\ guiPc' = "idle" /\ history_current = 0) =>
       running' = running
  /\ (guiPc = "copy_wait" /\ guiPc' # "copy_wait") =>
       /\ guiPc' = "idle"
       /\ running'
       /\ loops' = 1
       /\ pollerPc' = "check"

C21_MonitorRestarted ==
  /\ [](guiPc = "idle" => (running /\ loops = 1))
  /\ [][C21_Step]_vars

\* C21 witness: after a restore the restarted loop has compared the
\* restored content and is in its next iteration.
C21_Witness ==
  /\ guiPc = "idle"
  /\ running
  /\ pollerPc = "body"
  /\ clipboard.item = 0
  /\ clipboard.kind # "none"
  /\ previous_content = ClipboardContent

\* C22: clearClipboardHistory sets is_deleted of every entry of the current
\* session and leaves the entries of every other session, and the sessions
\* and users tables, as they are; with no current session it changes
\* nothing.
C22_Step ==
  clearClipboardHistory =>
    /\ sessions' = sessions
    /\ users' = users
    /\ IF current_session_id = None
       THEN /\ clipboard_entries' = clipboard_entries
            /\ clipboard_history' = clipboard_history
       ELSE /\ clipboard_entries' =
                 [i \in 1..Len(clipboard_entries) |->
                    IF clipboard_entries[i].session_id = current_session_id
                    THEN [clipboard_entries[i] EXCEPT !.is_deleted = TRUE]
                    ELSE clipboard_entries[i]]
            /\ clipboard_history' = <<>>

C22_ClearsCurrentOnly == [][C22_Step]_vars

\* C22 witness: the entry of the current session is deleted and its history
\* is empty while an entry of another, live session is not deleted.
C22_Witness ==
  /\ current_session_id # None
  /\ clipboard_history = <<>>
  /\ \E d, e \in 1..Len(clipboard_entries) :
       /\ clipboard_entries[d].session_id = current_session_id
       /\ clipboard_entries[d].is_deleted
       /\ clipboard_entries[e].session_id # current_session_id
       /\ ~clipboard_entries[e].is_deleted
       /\ ~sessions[clipboard_entries[e].session_id].is_deleted

C24_OwnSessionsOnly ==
  LoggedIn =>
    /\ \A i \in 1..Len(session_list) :
         sessions[session_list[i].id].user_id = current_user_id
    /\ current_session_id # None =>
         sessions[current_session_id].user_id = current_user_id

\* C25: what the change handler saves for a signal is the content, with
\* its type, that the polling loop observed when it emitted that signal.
\* With one signal queued, that content is previous_content, which the loop
\* sets at every emission and nowhere else.
C25_Step ==
  (onClipboardChanged /\ pending = 1 /\ Len(clipboard_entries') > Len(clipboard_entries)) =>
     LET new == clipboard_entries'[Len(clipboard_entries')]
     IN  /\ new.content_type = previous_content.kind
         /\ new.content = IF previous_content.kind = "image"
                          THEN ImageToBase64(previous_content.val)
                          ELSE previous_content.val

C25_SavesObserved == [][C25_Step]_vars

\* C26: whenever the interactive thread has completed an operation (no
\* storage error is raised in this specification), clipboard_history is
\* empty if no session is current, and otherwise holds one tuple for each
\* non-deleted entry of the current session, with that row's content, type
\* and timestamp, the newer rows first.
C26_HistoryMatchesStore ==
  guiPc = "idle" =>
    IF current_session_id = None
    THEN clipboard_history = <<>>
    ELSE LET live == {e \in 1..Len(clipboard_entries) :
                        /\ clipboard_entries[e].session_id = current_session_id
                        /\ ~clipboard_entries[e].is_deleted}
             n == Len(clipboard_history)
         IN  /\ n = Cardinality(live)
             /\ {clipboard_history[r].id : r \in 1..n} = live
             /\ \A r \in 1..n :
                  LET row == clipboard_entries[clipboard_history[r].id]
                  IN  /\ clipboard_history[r].content = row.content
                      /\ clipboard_history[r].content_type = row.content_type
                      /\ clipboard_history[r].timestamp = convert_datetime(row.timestamp)
             /\ \A r, q \in 1..n : r < q =>
                  clipboard_history[r].timestamp > clipboard_history[q].timestamp

\* C26 witness: two entries of the current session are shown, the first
\* row of the table on top because it was modified after the second was
\* saved.
C26_Witness ==
  /\ guiPc = "idle"
  /\ current_session_id # None
  /\ Len(clipboard_history) = 2
  /\ clipboard_history[1].id = 1
  /\ clipboard_history[2].id = 2

\* C27: in every reachable state each entry of a soft-deleted session is
\* itself soft-deleted and current_session_id is None or a session that is
\* not deleted; and no step takes an is_deleted flag back.
C27_Inv ==
  /\ \A e \in 1..Len(clipboard_entries) :
       sessions[clipboard_entries[e].session_id].is_deleted =>
          clipboard_entries[e].is_deleted
  /\ current_session_id # None => ~sessions[current_session_id].is_deleted

C27_Step ==
  /\ \A i \in 1..Len(sessions) :
       sessions[i].is_deleted => (i <= Len(sessions') /\ sessions'[i].is_deleted)
  /\ \A e \in 1..Len(clipboard_entries) :
       clipboard_entries[e].is_deleted =>
          (e <= Len(clipboard_entries') /\ clipboard_entries'[e].is_deleted)

C27_DeletedSessionsHoldNoLiveEntry == []C27_Inv /\ [][C27_Step]_vars

\* C27 witness: a deleted session holds an entry, and a session selected
\* after the deletion has received a new entry.
C27_Witness ==
  /\ current_session_id # None
  /\ \E e \in 1..Len(clipboard_entries) :
       sessions[clipboard_entries[e].session_id].is_deleted
  /\ \E e \in 1..Len(clipboard_entries) :
       /\ clipboard_entries[e].session_id = current_session_id
       /\ ~clipboard_entries[e].is_deleted

\* C28: whenever the interactive thread has completed an operation, the
\* item highlighted in the session list is the session current_session_id
\* names, or nothing is highlighted and no session is current.
C28_HighlightIsCurrent ==
  (LoggedIn /\ guiPc = "idle") =>
     IF session_current = 0
     THEN current_session_id = None
     ELSE current_session_id = session_list[session_current].id

\* C29: db_lock cannot deadlock. The interactive thread never waits in an
\* acquire() of a lock it holds itself, and whenever a handler has ended,
\* with or without a storage error, db_lock is released.
C29_NoDeadlock == db_lock = "unlocked"

\* C29 witness: an entry was saved (the lock taken around the INSERT and
\* the reload of the history, then released), and after that an INSERT
\* raised while the lock was held.
C29_Witness ==
  /\ guiPc = "idle"
  /\ db_lock = "unlocked"
  /\ "locked" \in dbAccess
  /\ clipboard_entries # <<>>
  /\ surfaced = "log"

\* The states the one-run specifications start from are states of Spec.
InitRunUnreached     == ~InitRun
InitMonitorUnreached == ~InitMonitor

====
